---- MODULE Spec2Model ----
(***************************************************************************)
(* Model of the table <-> SMALL-LABS conversions of biteen_io.py           *)
(* (df_to_sl, sl_to_df, df_to_so, sl_to_so), of the table operations of    *)
(* biteen_pandas.py (filter_by_nlocs, median_step_size) and of the marker  *)
(* properties of plot_locs_scatter in biteen_plots.py.                     *)
(*                                                                         *)
(* Numbers are integers; every real value of the data is >= 0 and the      *)
(* floating point NaN is the reserved value NaN below, compared with the   *)
(* IEEE rule (NaN equals nothing, itself included).  numpy booleans are    *)
(* 1 and 0.  A numpy array is a record [shape, v]: shape <<n>> with v the  *)
(* n elements, or shape <<r, c>> with v the r rows of c elements each.     *)
(* A pandas DataFrame is a record [columns, index, data]: the column       *)
(* labels, the row labels, and one sequence of values per column,          *)
(* positionally (labels may repeat after a rename).                        *)
(***************************************************************************)
EXTENDS Integers, Sequences, FiniteSets, TLC

VARIABLES
    df,          \* the caller's table handed to df_to_sl
    col_mapper,  \* the col_mapper argument of the last df_to_sl call
    data_sl,     \* what the last df_to_sl call returned or raised
    sl_object,   \* the struct handed to sl_to_df
    df_out,      \* what the last sl_to_df call returned or raised
    data_df,     \* the table handed to df_to_so
    so_pixel_size,  \* the pixel_size argument of the last df_to_so call
    so_tracks,   \* what the last df_to_so call returned or raised
    sl_so,       \* what the last sl_to_so call returned or raised
    locs_df,     \* the table handed to filter_by_nlocs, median_step_size or
                 \* plot_locs_scatter
    kwargs,      \* the other arguments of that call
    ret,         \* what that call returned or raised
    marker_props_default,  \* the dict that is plot_locs_scatter's default
                 \* for marker_props, made once when the function is defined
    op           \* the caller's position: idle, or the call just made

vars == <<df, col_mapper, data_sl, sl_object, df_out, data_df, so_pixel_size, so_tracks,
          sl_so, locs_df, kwargs, ret, marker_props_default, op>>

\* the variables of the biteen_io.py calls, of the biteen_pandas.py and
\* biteen_plots.py calls
ioVars == <<df, col_mapper, data_sl, sl_object, df_out, data_df, so_pixel_size, so_tracks, sl_so>>

tableVars == <<locs_df, kwargs, ret>>

(* ------------------------------ bounds -------------------------------- *)
MaxRows == 2
MaxFrame == 1
MaxTrackId == 2
MaxMolId == 3
MaxIndexOffset == 1
MaxLocs == 3
MaxTracks == 2
MaxTrackRows == 3
MaxPixelSize == 2
MaxMinLocs == 2
MaxPlotRows == 2

(* --------------------------- numpy helpers ---------------------------- *)
NaN == -1

\* numpy's elementwise ==
NumEq(a, b) == a # NaN /\ b # NaN /\ a = b

Arr1(v) == [shape |-> <<Len(v)>>, v |-> v]

Arr2(r, c, rows) == [shape |-> <<r, c>>, v |-> rows]

Range(s) == {s[i] : i \in DOMAIN s}

\* the results of a call: a value, or the exception it raised
Ok(x) == [status |-> "ok", value |-> x]

Raise(e) == [status |-> e, value |-> <<>>]

(* --------------------------- pandas helpers --------------------------- *)
EmptyFrame == [columns |-> <<>>, index |-> <<>>, data |-> <<>>]

NRows(t) == Len(t.index)

\* positions of the columns labelled c, in column order
RECURSIVE PositionsFrom(_, _, _)
PositionsFrom(t, c, i) ==
    IF i > Len(t.columns) THEN <<>>
    ELSE (IF t.columns[i] = c THEN <<i>> ELSE <<>>) \o PositionsFrom(t, c, i + 1)

Positions(t, c) == PositionsFrom(t, c, 1)

HasColumn(t, c) == c \in Range(t.columns)

\* data[c].values: a 1-D array for a unique label, an N x k array when the
\* label occurs k > 1 times
ColumnValues(t, c) ==
    LET P == Positions(t, c)
    IN  IF Len(P) = 1 THEN Arr1(t.data[P[1]])
        ELSE Arr2(NRows(t), Len(P),
                  [r \in 1..NRows(t) |-> [j \in 1..Len(P) |-> t.data[P[j]][r]]])

\* DataFrame.rename(columns=mapper): self is the receiver after the call,
\* result the returned frame
RenameInPlace(t, mapper) ==
    LET renamed == [t EXCEPT !.columns =
                       [i \in DOMAIN t.columns |->
                           IF t.columns[i] \in DOMAIN mapper
                           THEN mapper[t.columns[i]] ELSE t.columns[i]]]
    IN  [self |-> renamed, result |-> renamed]

Rename(t, mapper) ==
    LET renamed == [t EXCEPT !.columns =
                       [i \in DOMAIN t.columns |->
                           IF t.columns[i] \in DOMAIN mapper
                           THEN mapper[t.columns[i]] ELSE t.columns[i]]]
    IN  [self |-> t, result |-> renamed]

(* ------------------------------ df_to_sl ------------------------------ *)
None == [is_none |-> TRUE, map |-> <<>>]

Mapper(m) == [is_none |-> FALSE, map |-> m]

RequiredColumns == {"frame", "row", "col", "track_id", "roinum"}

\* lines 327-330: the working table and the caller's table afterwards
WorkingCopy(t, mapper) ==
    IF ~mapper.is_none
    THEN LET r == Rename(t, mapper.map) IN [caller |-> r.self, data |-> r.result]
    ELSE [caller |-> t, data |-> t]

\* a Python dict: its keys in insertion order and the value at each key
Dict(keys, at) == [keys |-> keys, at |-> at]

EmptyDict == Dict(<<>>, <<>>)

RECURSIVE Dedup(_)
Dedup(s) ==
    IF s = <<>> THEN <<>>
    ELSE LET init == Dedup(SubSeq(s, 1, Len(s) - 1))
             x == s[Len(s)]
         IN  IF x \in Range(init) THEN init ELSE Append(init, x)

\* line 334
FitsDictFirstColumn(data) ==
    Dict(Dedup(data.columns), [c \in Range(data.columns) |-> Arr1(data.data[1])])

FitsDict(data) ==
    Dict(Dedup(data.columns), [c \in Range(data.columns) |-> ColumnValues(data, c)])

\* lines 344-347: the label whose values fill the molecule-id entry, "" for
\* the row index
MolidSourceNamed(data) ==
    IF HasColumn(data, "molecule_id") THEN "molecule_id"
    ELSE IF HasColumn(data, "molid") THEN "molid" ELSE ""

MolidSource(data) == IF HasColumn(data, "molid") THEN "molid" ELSE ""

\* lines 338-348: one row per localization, six entries per row
TracksMatrix(data) ==
    LET N == NRows(data)
        src == MolidSource(data)
        col(c) == ColumnValues(data, c).v
        mol == IF src = "" THEN data.index ELSE col(src)
    IN  Arr2(N, 6, [r \in 1..N |->
                      << col("frame")[r], col("row")[r], col("col")[r],
                         col("track_id")[r], col("roinum")[r], mol[r] >>])

\* the labels read by lines 339-347
TracksInputs(data) ==
    RequiredColumns \cup (IF MolidSource(data) = "" THEN {} ELSE {MolidSource(data)})

\* line 337
EmitsTracksAny(data) == RequiredColumns \cap Range(data.columns) # {}

EmitsTracks(data) == RequiredColumns \subseteq Range(data.columns)

\* df_to_sl(df, col_mapper): ret is what the call returns or raises, caller
\* is the caller's table after the call.  A label that is absent raises
\* KeyError; a repeated label yields an N x k array that cannot be assigned
\* to a column of tracks (ValueError).
df_to_sl(t, mapper) ==
    LET w == WorkingCopy(t, mapper)
        data == w.data
        fits == "fits" :> FitsDict(data)
    IN  [caller |-> w.caller,
         ret |-> IF EmitsTracks(data)
                 THEN IF \E c \in TracksInputs(data) : Len(Positions(data, c)) = 0
                      THEN Raise("KeyError")
                      ELSE IF \E c \in TracksInputs(data) : Len(Positions(data, c)) > 1
                      THEN Raise("ValueError")
                      ELSE Ok(fits @@ ("tracks" :> TracksMatrix(data)))
                 ELSE Ok(fits)]

(* ------------------------------ sl_to_df ------------------------------ *)
\* a[k, :] with k counted from 0
RowOf(a, k) ==
    IF Len(a.shape) # 2 THEN Raise("IndexError")
    ELSE IF k >= a.shape[1] THEN Raise("IndexError")
    ELSE Ok(a.v[k + 1])

RangeIndex(n) == [i \in 1..n |-> i - 1]

Repeat(x, n) == [i \in 1..n |-> x]

\* df[c] = values for a list-like values.  A frame without rows takes the
\* length of the values (its other columns are filled with NaN).
SetColumn(t, c, values) ==
    LET grown == IF NRows(t) = 0 /\ Len(values) > 0
                 THEN [columns |-> t.columns, index |-> RangeIndex(Len(values)),
                       data |-> [j \in DOMAIN t.data |-> Repeat(NaN, Len(values))]]
                 ELSE t
        P == Positions(grown, c)
    IN  IF Len(values) # NRows(grown) THEN Raise("ValueError")
        ELSE IF Len(P) = 0
             THEN Ok([grown EXCEPT !.columns = Append(@, c), !.data = Append(@, values)])
             ELSE Ok([grown EXCEPT !.data =
                        [j \in DOMAIN @ |-> IF j \in Range(P) THEN values ELSE @[j]]])

\* pd.DataFrame(data={key: array}) for 1-D arrays given in key order
DataFrameOf(keys, at) ==
    IF \E k1, k2 \in Range(keys) : Len(at[k1]) # Len(at[k2]) THEN Raise("ValueError")
    ELSE LET n == IF keys = <<>> THEN 0 ELSE Len(at[keys[1]])
         IN  Ok([columns |-> keys, index |-> RangeIndex(n),
                 data |-> [j \in DOMAIN keys |-> at[keys[j]]]])

\* the state of the name df before either branch binds it
UnboundAsEmpty == [status |-> "ok", value |-> EmptyFrame]

Unbound == [status |-> "unbound", value |-> <<>>]

\* line 209
FrameFromFits(fits) ==
    LET rows == [k \in Range(fits.keys) |-> RowOf(fits.at[k], 0)]
    IN  IF \E k \in Range(fits.keys) : rows[k].status # "ok" THEN Raise("IndexError")
        ELSE DataFrameOf(fits.keys, [k \in Range(fits.keys) |-> rows[k].value])

FrameFromGuessesSwapped(sl) ==
    LET g == sl["guesses"]
        r == [k \in 0..2 |-> RowOf(g, k)]
    IN  IF \E k \in 0..2 : r[k].status # "ok" THEN Raise("IndexError")
        ELSE LET base == DataFrameOf(<<"frame", "row", "col">>,
                            ("frame" :> r[0].value) @@ ("row" :> r[2].value)
                                @@ ("col" :> r[1].value))
             IN  IF "roinum" \in DOMAIN sl
                 THEN LET roi == RowOf(sl["roinum"], 0)
                      IN  IF roi.status # "ok" THEN roi
                          ELSE SetColumn(base.value, "roinum", roi.value)
                 ELSE base

\* lines 211-215
FrameFromGuesses(sl) ==
    LET g == sl["guesses"]
        r == [k \in 0..2 |-> RowOf(g, k)]
    IN  IF \E k \in 0..2 : r[k].status # "ok" THEN Raise("IndexError")
        ELSE LET base == DataFrameOf(<<"frame", "row", "col">>,
                            ("frame" :> r[0].value) @@ ("row" :> r[1].value)
                                @@ ("col" :> r[2].value))
             IN  IF "roinum" \in DOMAIN sl
                 THEN LET roi == RowOf(sl["roinum"], 0)
                      IN  IF roi.status # "ok" THEN roi
                          ELSE SetColumn(base.value, "roinum", roi.value)
                 ELSE base

\* lines 217-218, on the outcome so far
WithTrkFilt(prev, sl) ==
    IF prev.status \notin {"ok", "unbound"} THEN prev
    ELSE LET f == RowOf(sl["trk_filt"], 0)
         IN  IF f.status # "ok" THEN f
             ELSE IF prev.status = "unbound" THEN Raise("UnboundLocalError")
             ELSE SetColumn(prev.value, "trk_filt", f.value)

\* np.isin(elements, test)
IsInInverted(elements, test) ==
    [i \in DOMAIN elements |->
        IF \E j \in DOMAIN test : NumEq(elements[i], test[j]) THEN 0 ELSE 1]

IsIn(elements, test) ==
    [i \in DOMAIN elements |->
        IF \E j \in DOMAIN test : NumEq(elements[i], test[j]) THEN 1 ELSE 0]

\* positions selected by the boolean mask column == flag, in row order
RECURSIVE MaskedFrom(_, _, _)
MaskedFrom(mask, flag, i) ==
    IF i > Len(mask) THEN <<>>
    ELSE (IF mask[i] = flag THEN <<i>> ELSE <<>>) \o MaskedFrom(mask, flag, i + 1)

Masked(mask, flag) == MaskedFrom(mask, flag, 1)

\* df.loc[mask == flag, c] = values for a 1-D array values and one existing
\* column c of a frame with columns of several dtypes: the values go to the
\* selected rows in order; a selection of no row is left alone when the
\* array is as long as the frame or has one element; every other length
\* mismatch raises ValueError
LocAssign(t, mask, flag, c, values) ==
    LET sel == Masked(mask, flag)
        p == Positions(t, c)[1]
        put == [t EXCEPT !.data[p] =
                   [r \in DOMAIN @ |->
                       IF \E k \in DOMAIN sel : sel[k] = r
                       THEN values[CHOOSE k \in DOMAIN sel : sel[k] = r]
                       ELSE @[r]]]
    IN  IF Len(sel) = Len(values) THEN Ok(put)
        ELSE IF Len(sel) # 0 THEN Raise("ValueError")
        ELSE IF Len(values) = NRows(t) \/ Len(values) = 1 THEN Ok(t)
        ELSE Raise("ValueError")

SeqMax(s) == CHOOSE m \in Range(s) : \A x \in Range(s) : x <= m

\* np.arange(lo, hi)
ARange(lo, hi) == [i \in 1..(IF hi > lo THEN hi - lo ELSE 0) |-> lo + i - 1]

\* line 226: the ids of the rows that are not tracked
SynthesizedIdsFromZero(track_id_max, n_nottracked) == ARange(1, n_nottracked + 1)

SynthesizedIdsReversed(track_id_max, n_nottracked) ==
    [i \in 1..n_nottracked |-> track_id_max + n_nottracked + 1 - i]

SynthesizedIds(track_id_max, n_nottracked) ==
    ARange(track_id_max + 1, track_id_max + n_nottracked + 1)

\* lines 220-226, on the outcome so far
WithTracks(prev, tracks) ==
    IF prev.status = "unbound" THEN Raise("UnboundLocalError")
    ELSE IF prev.status # "ok" THEN prev
    ELSE LET t0 == prev.value
             molrow == RowOf(tracks, 5)
             idrow == RowOf(tracks, 3)
         IN  IF Len(Positions(t0, "molid")) = 0 THEN Raise("KeyError")
             ELSE IF molrow.status # "ok" THEN molrow
             ELSE
             LET tracked == IsIn(t0.data[Positions(t0, "molid")[1]], molrow.value)
                 t1 == SetColumn(t0, "tracked", tracked).value
                 t2 == SetColumn(t1, "track_id", Repeat(NaN, NRows(t1))).value
                 t3 == LocAssign(t2, tracked, 1, "track_id", idrow.value)
             IN  IF t3.status # "ok" THEN t3
                 ELSE IF Len(idrow.value) = 0 THEN Raise("ValueError")
                 ELSE LET track_id_max == SeqMax(idrow.value)
                          n_nottracked == Len(Masked(tracked, 0))
                      IN  LocAssign(t3.value, tracked, 0, "track_id",
                                    SynthesizedIds(track_id_max, n_nottracked))

sl_to_df(sl) ==
    LET keys == DOMAIN sl
        base == IF "fits" \in keys THEN FrameFromFits(sl["fits"])
                ELSE IF "guesses" \in keys THEN FrameFromGuesses(sl)
                ELSE Unbound
        filt == IF "trk_filt" \in keys THEN WithTrkFilt(base, sl) ELSE base
        trk == IF "tracks" \in keys THEN WithTracks(filt, sl["tracks"]) ELSE filt
    IN  IF trk.status = "unbound" THEN Raise("UnboundLocalError") ELSE trk

(* ------------------------------ df_to_so ------------------------------ *)
\* .astype('int') of a frame number that is a whole number
AsTypeInt(x) == x

RECURSIVE SortedSeq(_)
SortedSeq(S) ==
    IF S = {} THEN <<>>
    ELSE LET m == CHOOSE x \in S : \A y \in S : x <= y
         IN  <<m>> \o SortedSeq(S \ {m})

\* np.unique(a): the distinct values in ascending order, the NaNs collapsed
\* into one NaN at the end
UniqueFirstSeen(a) == Dedup(a)

UniqueOrZero(a) ==
    IF a = <<>> THEN <<0>>
    ELSE SortedSeq(Range(a) \ {NaN}) \o (IF NaN \in Range(a) THEN <<NaN>> ELSE <<>>)

Unique(a) ==
    SortedSeq(Range(a) \ {NaN}) \o (IF NaN \in Range(a) THEN <<NaN>> ELSE <<>>)

\* values[track_ids == ti]
Take(values, track_ids, ti) ==
    LET sel == Masked([i \in DOMAIN track_ids |->
                          IF NumEq(track_ids[i], ti) THEN 1 ELSE 0], 1)
    IN  [k \in DOMAIN sel |-> values[sel[k]]]

\* df_to_so(data_df, frame_col, coord_cols, track_col, pixel_size, t_frame);
\* t_frame is given in milliseconds
df_to_so(t, frame_col, coord_cols, track_col, pixel_size, t_frame) ==
    IF \E c \in {frame_col, coord_cols[1], coord_cols[2], track_col} :
           Len(Positions(t, c)) = 0
    THEN Raise("KeyError")
    ELSE LET col(c) == t.data[Positions(t, c)[1]]
             xy == [r \in 1..NRows(t) |->
                       << col(coord_cols[1])[r] * pixel_size,
                          col(coord_cols[2])[r] * pixel_size >>]
             frames == [r \in 1..NRows(t) |-> AsTypeInt(col(frame_col)[r])]
             times == [r \in 1..NRows(t) |-> frames[r] * t_frame]
             track_ids == col(track_col)
             unique_track_ids == Unique(track_ids)
         IN  Ok([k \in DOMAIN unique_track_ids |->
                   [xy |-> Take(xy, track_ids, unique_track_ids[k]),
                    TimeStamp |-> Take(times, track_ids, unique_track_ids[k]),
                    Frame |-> Take(frames, track_ids, unique_track_ids[k])]])

(* ------------------------------ sl_to_so ------------------------------ *)
\* a.T: a 1-D array is its own transpose
Transpose(a) ==
    IF Len(a.shape) # 2 THEN a
    ELSE Arr2(a.shape[2], a.shape[1],
              [j \in 1..a.shape[2] |-> [i \in 1..a.shape[1] |-> a.v[i][j]]])

\* a[mask] for a 2-D array a and a 1-D boolean mask: the rows of a where the
\* mask is set; a mask that is not as long as a has rows raises IndexError
MaskIndex(a, mask) ==
    IF Len(mask) # a.shape[1] THEN Raise("IndexError")
    ELSE LET sel == Masked(mask, 1)
         IN  Ok(Arr2(Len(sel), a.shape[2], [k \in DOMAIN sel |-> a.v[sel[k]]]))

\* sl_to_so(data_sl, pixel_size, t_frame); t_frame is given in milliseconds.
\* xy is N x 2, frames and times are 1 x N (line 388 transposes the frame
\* column), track_ids has N elements
sl_to_so(sl, pixel_size, t_frame) ==
    IF "tracks" \notin DOMAIN sl THEN Ok(<<>>)
    ELSE LET data_np == Transpose(sl["tracks"])
         IN  IF Len(data_np.shape) # 2 THEN Ok(<<>>)
             ELSE LET N == data_np.shape[1]
                      xy == Arr2(N, 2, [r \in 1..N |->
                                          << data_np.v[r][2] * pixel_size,
                                             data_np.v[r][3] * pixel_size >>])
                      frames == Arr2(1, N, << [r \in 1..N |-> AsTypeInt(data_np.v[r][1])] >>)
                      times == Arr2(1, N, << [r \in 1..N |-> frames.v[1][r] * t_frame] >>)
                      track_ids == [r \in 1..N |-> data_np.v[r][4]]
                      unique_track_ids == Unique(track_ids)
                      mask(ti) == [r \in 1..N |-> IF NumEq(track_ids[r], ti) THEN 1 ELSE 0]
                      group(ti) == [xy |-> MaskIndex(xy, mask(ti)),
                                    TimeStamp |-> MaskIndex(times, mask(ti)),
                                    Frame |-> MaskIndex(frames, mask(ti))]
                  IN  IF \E k \in DOMAIN unique_track_ids :
                             \E f \in {"xy", "TimeStamp", "Frame"} :
                                group(unique_track_ids[k])[f].status # "ok"
                      THEN Raise("IndexError")
                      ELSE Ok([k \in DOMAIN unique_track_ids |->
                                 [f \in {"xy", "TimeStamp", "Frame"} |->
                                     group(unique_track_ids[k])[f].value]])

\* the arrays of a group of df_to_so: xy is n x 2, TimeStamp and Frame are
\* 1-D with n elements (lines 425-430 index 1-D arrays)
GroupArrays(g) ==
    [xy |-> Arr2(Len(g.xy), 2, g.xy),
     TimeStamp |-> Arr1(g.TimeStamp),
     Frame |-> Arr1(g.Frame)]

(* --------------------------- biteen_pandas ---------------------------- *)
\* np.inf, above every count
Inf == 1000000

\* the rows sel (positions, in order) of the frame t, labels kept
TakeRows(t, sel) ==
    [columns |-> t.columns,
     index |-> [k \in DOMAIN sel |-> t.index[sel[k]]],
     data |-> [j \in DOMAIN t.data |-> [k \in DOMAIN sel |-> t.data[j][sel[k]]]]]

\* DataFrame.reset_index(): the labels become the first column, named index
\* (level_0 when the frame has a column index already)
ResetIndex(t) ==
    LET name == IF HasColumn(t, "index") THEN "level_0" ELSE "index"
    IN  IF HasColumn(t, name) THEN Raise("ValueError")
        ELSE Ok([columns |-> <<name>> \o t.columns,
                 index |-> RangeIndex(NRows(t)),
                 data |-> <<t.index>> \o t.data])

\* x[track_col].count() for the group of the row r: the rows with r's key
GroupCount(keys, r) == Len(Masked([q \in DOMAIN keys |->
                                     IF NumEq(keys[q], keys[r]) THEN 1 ELSE 0], 1))

\* line 25: the test of the lambda on a group of c rows
KeepsCountStrict(c, min_locs, max_locs) == c > min_locs /\ c < max_locs

KeepsCount(c, min_locs, max_locs) == c >= min_locs /\ c <= max_locs

\* filter_by_nlocs(locs_df, min_locs, max_locs, track_col); groupby leaves
\* the rows with a NaN key out of every group and filter drops them
filter_by_nlocs(t, min_locs, max_locs, track_col) ==
    IF Len(Positions(t, track_col)) = 0 THEN Raise("KeyError")
    ELSE LET keys == t.data[Positions(t, track_col)[1]]
             keep == [r \in DOMAIN keys |->
                         IF keys[r] # NaN
                            /\ KeepsCount(GroupCount(keys, r), min_locs, max_locs)
                         THEN 1 ELSE 0]
         IN  ResetIndex(TakeRows(t, Masked(keep, 1)))

\* the elements of s in ascending order
RECURSIVE Ascending(_)
Ascending(s) ==
    IF s = <<>> THEN <<>>
    ELSE LET i == CHOOSE i \in DOMAIN s : \A j \in DOMAIN s : s[i] <= s[j]
         IN  <<s[i]>> \o Ascending(SubSeq(s, 1, i - 1) \o SubSeq(s, i + 1, Len(s)))

\* np.median of the step lengths whose squares are d2: the mean of the two
\* middle lengths, kept as their squares [lo, hi]; NaN for no step
NaNMedian == [lo |-> NaN, hi |-> NaN]

Median(d2) ==
    IF d2 = <<>> THEN NaNMedian
    ELSE LET srt == Ascending(d2)
             n == Len(srt)
         IN  [lo |-> srt[(n + 1) \div 2], hi |-> srt[(n \div 2) + 1]]

\* lines 55-60: the median step of the track with the rows sel
TrackMedian(frames, x, y, sel) ==
    LET steps == [k \in 1..(Len(sel) - 1) |->
                     [d2 |-> (x[sel[k + 1]] - x[sel[k]]) * (x[sel[k + 1]] - x[sel[k]])
                             + (y[sel[k + 1]] - y[sel[k]]) * (y[sel[k + 1]] - y[sel[k]]),
                      dt |-> frames[sel[k + 1]] - frames[sel[k]]]]
        adjacent == Masked([k \in DOMAIN steps |-> IF steps[k].dt = 1 THEN 1 ELSE 0], 1)
    IN  Median([k \in DOMAIN adjacent |-> steps[adjacent[k]].d2])

\* median_step_size(locs_df, frame_col, coord_cols, track_col): line 46 reads
\* the column track_id, lines 47-49 the frame and coordinate columns, line 53
\* the column track_col, once per id
median_step_size(t, frame_col, coord_cols, track_col) ==
    IF \E c \in {"track_id", frame_col, coord_cols[1], coord_cols[2]} :
           Len(Positions(t, c)) = 0
    THEN Raise("KeyError")
    ELSE LET col(c) == t.data[Positions(t, c)[1]]
             track_ids == Unique(col("track_id"))
             frames == col(frame_col)
             x == col(coord_cols[1])
             y == col(coord_cols[2])
         IN  IF track_ids # <<>> /\ Len(Positions(t, track_col)) = 0
             THEN Raise("KeyError")
             ELSE LET rows(ti) == Masked([r \in 1..NRows(t) |->
                                     IF NumEq(col(track_col)[r], ti) THEN 1 ELSE 0], 1)
                      d_med == [i \in DOMAIN track_ids |->
                                   IF Len(rows(track_ids[i])) > 1
                                   THEN TrackMedian(frames, x, y, rows(track_ids[i]))
                                   ELSE NaNMedian]
                  IN  Ok([columns |-> <<track_col, "d_med">>,
                          index |-> RangeIndex(Len(track_ids)),
                          data |-> <<track_ids, d_med>>])

(* ------------------------- plot_locs_scatter -------------------------- *)
\* the value of the keyword c: None or a column of the table
NoColors == [is_none |-> TRUE, values |-> <<>>]

Colors(v) == [is_none |-> FALSE, values |-> v]

\* key in d
HasKey(d, key) == key \in Range(d.keys)

\* d[key]
Lookup(d, key) == d.at[CHOOSE i \in DOMAIN d.keys : d.keys[i] = key]

\* d[key] = value for a key that d does not hold
Store(d, key, value) == Dict(Append(d.keys, key), Append(d.at, value))

\* plot_locs_scatter(locs_df, color_col=color_col, marker_props=marker_props)
\* with labels and image None: the outcome of the call (the keyword c that
\* line 205 hands to ax.scatter) and the dict marker_props afterwards
plot_locs_scatter(t, color_col, marker_props) ==
    IF ~color_col.is_none /\ Len(Positions(t, color_col.name)) = 0
    THEN [result |-> Raise("KeyError"), marker_props |-> marker_props]
    ELSE LET colors == IF color_col.is_none THEN NoColors
                       ELSE Colors(t.data[Positions(t, color_col.name)[1]])
             props == IF ~HasKey(marker_props, "c")
                      THEN Store(marker_props, "c", colors)
                      ELSE marker_props
         IN  IF NRows(t) = 0
             THEN [result |-> Raise("ValueError"), marker_props |-> props]
             ELSE [result |-> Ok(Lookup(props, "c")), marker_props |-> props]

(* ------------------------------- inputs ------------------------------- *)
Points == {<<3, 4>>, <<5, 6>>}

Locs == [frame : 0..MaxFrame, pt : Points, track_id : 1..MaxTrackId, molid : 1..MaxMolId]

SeqsUpTo(S, n) == UNION {[1..k -> S] : k \in 0..n}

\* a molecule id names one raw localization
Distinct(s) == \A i, j \in DOMAIN s : i # j => s[i] # s[j]

\* the value a localization has in the column labelled c
FieldOf(c, l) ==
    CASE c = "frame" -> l.frame
      [] c \in {"row", "y"} -> l.pt[1]
      [] c \in {"col", "x"} -> l.pt[2]
      [] c \in {"track_id", "n"} -> l.track_id
      [] c \in {"roinum", "rois"} -> 1
      [] c \in {"molid", "molecule_id"} -> l.molid

Schemas ==
    { <<"frame", "row", "col", "track_id", "roinum">>,
      <<"frame", "row", "col", "track_id", "roinum", "molid">>,
      <<"frame", "row", "col", "track_id", "roinum", "molecule_id">>,
      <<"frame", "y", "x", "n", "rois">>,
      <<"frame", "row", "col">> }

TableOf(schema, locs, offset) ==
    [columns |-> schema,
     index |-> [i \in DOMAIN locs |-> i - 1 + offset],
     data |-> [j \in DOMAIN schema |-> [i \in DOMAIN locs |-> FieldOf(schema[j], locs[i])]]]

Tables ==
    {TableOf(s, l, o) : s \in Schemas,
                        l \in {x \in SeqsUpTo(Locs, MaxRows) :
                                  Distinct([i \in DOMAIN x |-> x[i].molid])},
                        o \in 0..MaxIndexOffset}

\* the docstring's example mapper, two that rename a molecule-id column and
\* one that gives two columns the same label
SLMapper ==
    Mapper(("x" :> "col") @@ ("y" :> "row") @@ ("n" :> "track_id") @@ ("rois" :> "roinum"))

Mappers ==
    {None, SLMapper, Mapper("molid" :> "roinum"), Mapper("molecule_id" :> "molid"),
     Mapper("row" :> "col")}

\* a struct as h5py reads it: every field of fits, roinum and trk_filt is a
\* 1 x N array, guesses is 3 x N and tracks is 6 x M; h5py lists the keys
\* of a group in alphabetical order
TrackColumns == [track_id : 1..MaxTrackId, molid : 1..MaxMolId]

TracksOf(cols) ==
    LET M == Len(cols)
    IN  Arr2(6, M, << Repeat(0, M), Repeat(3, M), Repeat(4, M),
                      [j \in 1..M |-> cols[j].track_id], Repeat(1, M),
                      [j \in 1..M |-> cols[j].molid] >>)

FitsOf(molids, with_molid) ==
    LET N == Len(molids)
        frame == Arr2(1, N, <<RangeIndex(N)>>)
    IN  IF with_molid
        THEN Dict(<<"frame", "molid">>, ("frame" :> frame) @@ ("molid" :> Arr2(1, N, <<molids>>)))
        ELSE Dict(<<"frame">>, "frame" :> frame)

GuessesOf(N) == Arr2(3, N, <<RangeIndex(N), Repeat(3, N), Repeat(4, N)>>)

StructKeys == {"fits", "guesses", "roinum", "trk_filt", "tracks"}

StructOf(K, molids, with_molid, cols) ==
    [k \in K |->
        CASE k = "fits" -> FitsOf(molids, with_molid)
          [] k = "guesses" -> GuessesOf(Len(molids))
          [] k = "roinum" -> Arr2(1, Len(molids), <<Repeat(1, Len(molids))>>)
          [] k = "trk_filt" -> Arr2(1, Len(molids), <<Repeat(1, Len(molids))>>)
          [] k = "tracks" -> TracksOf(cols)]

Structs ==
    {StructOf(K, m, w, c) : K \in SUBSET StructKeys,
                            m \in {x \in SeqsUpTo(1..MaxMolId, MaxLocs) : Distinct(x)},
                            w \in BOOLEAN, c \in SeqsUpTo(TrackColumns, MaxTracks)}

\* tables for df_to_so, under its default column names
TrackRows == [frame : 0..MaxFrame, pt : Points, track_id : (1..MaxTrackId) \cup {NaN}]

TrackTableOf(rows) ==
    [columns |-> <<"frame", "x", "y", "track_id">>,
     index |-> RangeIndex(Len(rows)),
     data |-> << [i \in DOMAIN rows |-> rows[i].frame],
                 [i \in DOMAIN rows |-> rows[i].pt[1]],
                 [i \in DOMAIN rows |-> rows[i].pt[2]],
                 [i \in DOMAIN rows |-> rows[i].track_id] >>]

\* track ids [1,1,2,3,3,3] with frames [0,1,0,5,6,7]
ExampleTable ==
    [columns |-> <<"frame", "x", "y", "track_id">>,
     index |-> RangeIndex(6),
     data |-> << <<0, 1, 0, 5, 6, 7>>, Repeat(3, 6), Repeat(4, 6), <<1, 1, 2, 3, 3, 3>> >>]

TrackTables == {TrackTableOf(r) : r \in SeqsUpTo(TrackRows, MaxTrackRows)} \cup {ExampleTable}

\* t_frame in milliseconds (0.04 s)
TFrame == 40

\* the tables of TrackTables with the track column labelled lbl
LocsTables(lbl) ==
    {[t EXCEPT !.columns = <<"frame", "x", "y", lbl>>] : t \in TrackTables}

TrackLabels == {"track_id", "n"}

\* the tables handed to plot_locs_scatter
PlotTables ==
    UNION {{[t EXCEPT !.columns = <<"frame", "x", "y", lbl>>] :
               t \in {TrackTableOf(r) : r \in SeqsUpTo(TrackRows, MaxPlotRows)}} :
           lbl \in TrackLabels}

\* the color_col arguments: None or a column name
NoColumn == [is_none |-> TRUE, name |-> ""]

ColorCols == {NoColumn} \cup {[is_none |-> FALSE, name |-> c] : c \in {"frame", "track_id"}}

\* structs for sl_to_so: a 6 x N tracks matrix (frame, row, col, track_id,
\* roinum, molid), the two-element tracks of a file without tracks, or no
\* tracks at all
SpotOnRows == [frame : 0..MaxFrame, pt : Points, track_id : 1..MaxTrackId]

SpotOnTracks(rows) ==
    LET N == Len(rows)
    IN  Arr2(6, N, << [j \in 1..N |-> rows[j].frame],
                      [j \in 1..N |-> rows[j].pt[1]],
                      [j \in 1..N |-> rows[j].pt[2]],
                      [j \in 1..N |-> rows[j].track_id],
                      Repeat(1, N), ARange(1, N + 1) >>)

SpotOnStructs ==
    {[tracks |-> SpotOnTracks(r)] : r \in SeqsUpTo(SpotOnRows, MaxTrackRows)}
        \cup {[tracks |-> Arr1(<<0, 0>>)], [fits |-> EmptyDict]}

\* the table with the localizations of a 6 x N tracks matrix, in its order
TableOfTracks(tracks) ==
    [columns |-> <<"frame", "row", "col", "track_id", "roinum", "molid">>,
     index |-> RangeIndex(tracks.shape[2]),
     data |-> tracks.v]

(* --------------------------- the caller's steps ----------------------- *)
NoResult == [status |-> "none", value |-> <<>>]

Init ==
    /\ df = EmptyFrame
    /\ col_mapper = None
    /\ data_sl = NoResult
    /\ sl_object = <<>>
    /\ df_out = NoResult
    /\ data_df = EmptyFrame
    /\ so_pixel_size = 1
    /\ so_tracks = NoResult
    /\ sl_so = NoResult
    /\ locs_df = EmptyFrame
    /\ kwargs = <<>>
    /\ ret = NoResult
    /\ marker_props_default = EmptyDict
    /\ op = "idle"

\* the caller builds a table
NewTable ==
    /\ op = "idle"
    /\ \E t \in Tables : df' = t
    /\ op' = "table"
    /\ UNCHANGED <<col_mapper, data_sl, sl_object, df_out, data_df, so_pixel_size, so_tracks>>
    /\ UNCHANGED <<sl_so, tableVars, marker_props_default>>

\* data_sl = df_to_sl(df, col_mapper)
DfToSl ==
    /\ op \in {"table", "df_to_sl", "round_trip"}
    /\ \E m \in Mappers :
          LET r == df_to_sl(df, m)
          IN  /\ df' = r.caller
              /\ col_mapper' = m
              /\ data_sl' = r.ret
    /\ df_out' = NoResult
    /\ op' = "df_to_sl"
    /\ UNCHANGED <<sl_object, data_df, so_pixel_size, so_tracks>>
    /\ UNCHANGED <<sl_so, tableVars, marker_props_default>>

\* sl_to_df(df_to_sl(df, col_mapper)): the struct goes straight back
SlToDfOfResult ==
    /\ op = "df_to_sl"
    /\ data_sl.status = "ok"
    /\ df_out' = sl_to_df(data_sl.value)
    /\ op' = "round_trip"
    /\ UNCHANGED <<df, col_mapper, data_sl, sl_object, data_df, so_pixel_size, so_tracks>>
    /\ UNCHANGED <<sl_so, tableVars, marker_props_default>>

\* df_out = sl_to_df(sl_object) on a struct read from a file
SlToDf ==
    /\ op = "idle"
    /\ \E s \in Structs :
          /\ sl_object' = s
          /\ df_out' = sl_to_df(s)
    /\ op' = "sl_to_df"
    /\ UNCHANGED <<df, col_mapper, data_sl, data_df, so_pixel_size, so_tracks>>
    /\ UNCHANGED <<sl_so, tableVars, marker_props_default>>

\* so_tracks = df_to_so(data_df, pixel_size=so_pixel_size)
DfToSo ==
    /\ op = "idle"
    /\ \E t \in TrackTables, ps \in 1..MaxPixelSize :
          /\ data_df' = t
          /\ so_pixel_size' = ps
          /\ so_tracks' = df_to_so(t, "frame", <<"x", "y">>, "track_id", ps, TFrame)
    /\ op' = "df_to_so"
    /\ UNCHANGED <<df, col_mapper, data_sl, sl_object, df_out>>
    /\ UNCHANGED <<sl_so, tableVars, marker_props_default>>

\* sl_so = sl_to_so(sl_object, pixel_size=so_pixel_size, t_frame=TFrame)
SlToSo ==
    /\ op = "idle"
    /\ \E sl \in SpotOnStructs, ps \in 1..MaxPixelSize :
          /\ sl_object' = sl
          /\ so_pixel_size' = ps
          /\ sl_so' = sl_to_so(sl, ps, TFrame)
    /\ op' = "sl_to_so"
    /\ UNCHANGED <<df, col_mapper, data_sl, df_out, data_df, so_tracks>>
    /\ UNCHANGED <<tableVars, marker_props_default>>

\* so_tracks = df_to_so(data_df, coord_cols=['row', 'col'],
\* pixel_size=so_pixel_size) for the table of the localizations of the 6 x N
\* tracks matrix just converted
DfToSoOfTracks ==
    /\ op = "sl_to_so"
    /\ "tracks" \in DOMAIN sl_object
    /\ Len(sl_object["tracks"].shape) = 2
    /\ data_df' = TableOfTracks(sl_object["tracks"])
    /\ so_tracks' = df_to_so(data_df', "frame", <<"row", "col">>, "track_id",
                             so_pixel_size, TFrame)
    /\ op' = "sl_to_so, df_to_so"
    /\ UNCHANGED <<df, col_mapper, data_sl, sl_object, df_out, so_pixel_size, sl_so>>
    /\ UNCHANGED <<tableVars, marker_props_default>>

\* the caller drops what it holds; the default of marker_props lives on
\* with the function
Return ==
    /\ op # "idle"
    /\ df' = EmptyFrame
    /\ col_mapper' = None
    /\ data_sl' = NoResult
    /\ sl_object' = <<>>
    /\ df_out' = NoResult
    /\ data_df' = EmptyFrame
    /\ so_pixel_size' = 1
    /\ so_tracks' = NoResult
    /\ sl_so' = NoResult
    /\ locs_df' = EmptyFrame
    /\ kwargs' = <<>>
    /\ ret' = NoResult
    /\ UNCHANGED marker_props_default
    /\ op' = "idle"

\* ret = filter_by_nlocs(locs_df, min_locs, max_locs, track_col), the
\* track column of the table being the one the call names
FilterByNlocs ==
    /\ op = "idle"
    /\ \E lbl \in TrackLabels, mn \in 1..MaxMinLocs, mx \in {MaxMinLocs, Inf} :
          \E t \in LocsTables(lbl) :
             /\ locs_df' = t
             /\ kwargs' = [min_locs |-> mn, max_locs |-> mx, track_col |-> lbl]
             /\ ret' = filter_by_nlocs(t, mn, mx, lbl)
    /\ op' = "filter_by_nlocs"
    /\ UNCHANGED <<ioVars, marker_props_default>>

\* ret = median_step_size(locs_df, track_col=track_col)
MedianStepSize ==
    /\ op = "idle"
    /\ \E lbl \in TrackLabels, tc \in TrackLabels :
          \E t \in LocsTables(lbl) :
             /\ locs_df' = t
             /\ kwargs' = [track_col |-> tc]
             /\ ret' = median_step_size(t, "frame", <<"x", "y">>, tc)
    /\ op' = "median_step_size"
    /\ UNCHANGED <<ioVars, marker_props_default>>

\* plot_locs_scatter(locs_df, color_col=color_col), with marker_props left
\* out (the dict of line 143, made once when the function is defined) or
\* given as a new empty dict
PlotLocsScatter ==
    /\ op = "idle"
    /\ \E t \in PlotTables, cc \in ColorCols, omitted \in BOOLEAN :
          LET out == plot_locs_scatter(t, cc, IF omitted THEN marker_props_default
                                                         ELSE EmptyDict)
          IN  /\ locs_df' = t
              /\ kwargs' = [color_col |-> cc, omitted |-> omitted]
              /\ ret' = out.result
              /\ marker_props_default' = IF omitted THEN out.marker_props
                                         ELSE marker_props_default
    /\ op' = "plot_locs_scatter"
    /\ UNCHANGED ioVars

NextToLegacy == NewTable \/ DfToSl \/ SlToDfOfResult \/ Return

NextFromLegacy == SlToDf \/ Return

NextPartition == DfToSo \/ Return

NextTables == FilterByNlocs \/ MedianStepSize \/ Return

NextPlots == PlotLocsScatter \/ Return

NextSpotOn == SlToSo \/ DfToSoOfTracks \/ Return

Next ==
    \/ NewTable \/ DfToSl \/ SlToDfOfResult \/ SlToDf \/ DfToSo
    \/ SlToSo \/ DfToSoOfTracks \/ FilterByNlocs \/ MedianStepSize \/ PlotLocsScatter
    \/ Return

SpecToLegacy == Init /\ [][NextToLegacy]_vars

SpecFromLegacy == Init /\ [][NextFromLegacy]_vars

SpecPartition == Init /\ [][NextPartition]_vars

SpecTables == Init /\ [][NextTables]_vars

SpecPlots == Init /\ [][NextPlots]_vars

SpecSpotOn == Init /\ [][NextSpotOn]_vars

Spec == Init /\ [][Next]_vars

(* ------------------------------- claims ------------------------------- *)
\* the values of the one column labelled c
Col(t, c) == t.data[Positions(t, c)[1]]

\* the working table of the last df_to_sl call
Renamed == WorkingCopy(df, col_mapper).data

\* C1 (as claimed): for a table whose columns are exactly frame, row, col,
\* track_id and roinum, sl_to_df applied directly to the result of df_to_sl
\* returns a table with the same frame, row, col, track_id and roinum values,
\* row for row.
RoundTripReproduces ==
    (op = "round_trip" /\ Len(df.columns) = 5 /\ Range(df.columns) = RequiredColumns)
        => /\ df_out.status = "ok"
           /\ \A c \in RequiredColumns :
                 /\ Len(Positions(df_out.value, c)) = 1
                 /\ Col(df_out.value, c) = Col(df, c)

\* C2 (as claimed): when the table holds frame, row, col, track_id and roinum
\* after renaming, the tracks matrix of df_to_sl has 6 rows, in the order
\* frame, row, col, track_id, roinum, molid, and one column per table row.
TracksIsSixByN ==
    (op = "df_to_sl" /\ RequiredColumns \subseteq Range(Renamed.columns))
        => /\ data_sl.status = "ok"
           /\ "tracks" \in DOMAIN data_sl.value
           /\ data_sl.value["tracks"].shape = <<6, NRows(df)>>
           /\ \A k \in 1..5 :
                 data_sl.value["tracks"].v[k] =
                     Col(Renamed, <<"frame", "row", "col", "track_id", "roinum">>[k])

\* the table sl_to_df returned for a struct with a tracks matrix
ReturnedWithTracks ==
    op = "sl_to_df" /\ "tracks" \in DOMAIN sl_object /\ df_out.status = "ok"

TracksIds == sl_object["tracks"].v[4]

TracksMolids == sl_object["tracks"].v[6]

TrackedRows == {r \in 1..NRows(df_out.value) : Col(df_out.value, "tracked")[r] = 1}

UntrackedRows == {r \in 1..NRows(df_out.value) : Col(df_out.value, "tracked")[r] = 0}

\* C3 (as claimed): every tracked row of the table returned by sl_to_df has
\* the track id of a tracks column whose molecule id equals the row's molid,
\* whatever the order of the tracks columns.
TrackIdJoinedOnMolid ==
    ReturnedWithTracks
        => \A r \in TrackedRows :
              \E j \in DOMAIN TracksMolids :
                 /\ TracksMolids[j] = Col(df_out.value, "molid")[r]
                 /\ TracksIds[j] = Col(df_out.value, "track_id")[r]

\* C4: in the table returned by sl_to_df for a struct with tracks, a row is
\* tracked iff its molid occurs in the 6th row of tracks, and no tracked row
\* has a NaN track_id.
TrackedIffInTracks ==
    ReturnedWithTracks
        => \A r \in 1..NRows(df_out.value) :
              /\ Col(df_out.value, "tracked")[r] \in {0, 1}
              /\ (Col(df_out.value, "tracked")[r] = 1
                    <=> Col(df_out.value, "molid")[r] \in Range(TracksMolids))
              /\ ~(Col(df_out.value, "tracked")[r] = 1
                    /\ Col(df_out.value, "track_id")[r] = NaN)

\* C4 witness: a returned table with a tracked and an untracked row
TrackedAndUntrackedReturned ==
    ReturnedWithTracks /\ TrackedRows # {} /\ UntrackedRows # {}

SynthesizedSet == {Col(df_out.value, "track_id")[r] : r \in UntrackedRows}

\* C5: the track ids synthesized for the untracked rows are disjoint from the
\* track ids of the tracks matrix and are as many as the untracked rows.
SynthesizedIdsFresh ==
    ReturnedWithTracks
        => /\ SynthesizedSet \cap Range(TracksIds) = {}
           /\ NaN \notin SynthesizedSet
           /\ Cardinality(SynthesizedSet) = Cardinality(UntrackedRows)

\* C5 witness: two untracked rows next to a tracked one
TwoUntrackedReturned ==
    ReturnedWithTracks /\ Cardinality(UntrackedRows) >= 2 /\ TrackedRows # {}

RECURSIVE SumSizes(_)
SumSizes(groups) ==
    IF groups = <<>> THEN 0
    ELSE Len(groups[1].Frame) + SumSizes(Tail(groups))

\* C6 (as claimed): df_to_so drops no row, the rows with a NaN track_id
\* included: the sizes of the groups sum to the number of rows.
NoRowDropped ==
    (op = "df_to_so" /\ so_tracks.status = "ok")
        => /\ SumSizes(so_tracks.value) = NRows(data_df)
           /\ \A k \in DOMAIN so_tracks.value :
                 /\ Len(so_tracks.value[k].xy) = Len(so_tracks.value[k].Frame)
                 /\ Len(so_tracks.value[k].TimeStamp) = Len(so_tracks.value[k].Frame)

\* the distinct track ids of the table handed to df_to_so that are numbers
InputIds == Range(Col(data_df, "track_id")) \ {NaN}

\* the frames of the rows with track id d, in table order
RECURSIVE FramesOfFrom(_, _)
FramesOfFrom(d, i) ==
    IF i > NRows(data_df) THEN <<>>
    ELSE (IF Col(data_df, "track_id")[i] = d THEN <<Col(data_df, "frame")[i]>> ELSE <<>>)
             \o FramesOfFrom(d, i + 1)

\* C7: df_to_so emits one group per distinct track id (NaN counting as one
\* id, placed last), in ascending id order, and the group of an id holds the
\* frames of that id's rows in the order of the table.
OneGroupPerTrackInOrder ==
    (op = "df_to_so" /\ so_tracks.status = "ok")
        => /\ Len(so_tracks.value) =
                 Cardinality(InputIds)
                     + (IF NaN \in Range(Col(data_df, "track_id")) THEN 1 ELSE 0)
           /\ \A d \in InputIds :
                 so_tracks.value[Cardinality({e \in InputIds : e < d}) + 1].Frame
                     = FramesOfFrom(d, 1)

\* C7 witness: the example, 3 groups with frames [0,1], [0], [5,6,7]
ExamplePartitioned ==
    /\ op = "df_to_so"
    /\ so_tracks.status = "ok"
    /\ Col(data_df, "track_id") = <<1, 1, 2, 3, 3, 3>>
    /\ Col(data_df, "frame") = <<0, 1, 0, 5, 6, 7>>
    /\ [k \in DOMAIN so_tracks.value |-> so_tracks.value[k].Frame]
           = << <<0, 1>>, <<0>>, <<5, 6, 7>> >>

\* C8: a df_to_sl call leaves the caller's table as it was, with or without
\* a col_mapper.
DfToSlLeavesTableAlone == [][op' = "df_to_sl" => df' = df]_vars

\* C8 witness: a call whose col_mapper changed a column label
RenamingCallMade ==
    /\ op = "df_to_sl"
    /\ ~col_mapper.is_none
    /\ data_sl.status = "ok"
    /\ data_sl.value["fits"].keys # df.columns

\* C9: when one of frame, row, col, track_id, roinum is missing after
\* renaming, df_to_sl raises nothing and returns a struct with the one key
\* fits.
OmissionRule ==
    (op = "df_to_sl" /\ ~(RequiredColumns \subseteq Range(Renamed.columns)))
        => /\ data_sl.status = "ok"
           /\ DOMAIN data_sl.value = {"fits"}

\* C9 witness: a call on a table that has some of the required columns only
\* (frame, y, x, n, rois without a col_mapper)
PartlyRequiredCall ==
    /\ op = "df_to_sl"
    /\ col_mapper.is_none
    /\ df.columns = <<"frame", "y", "x", "n", "rois">>
    /\ NRows(df) > 0

\* the molecule-id entries of the tracks matrix just emitted, per table row
EmittedMolids == [r \in 1..NRows(df) |-> data_sl.value["tracks"].v[r][6]]

TracksEmitted ==
    op = "df_to_sl" /\ data_sl.status = "ok" /\ "tracks" \in DOMAIN data_sl.value

\* C10 (as claimed): the molecule-id entry of a localization is the value of
\* the table's molecule_id column when there is one, and the row's index
\* otherwise.
MolidFromMoleculeIdColumn ==
    TracksEmitted
        => EmittedMolids = (IF HasColumn(Renamed, "molecule_id")
                            THEN Col(Renamed, "molecule_id") ELSE df.index)

\* C10 (amended): the molecule-id entry of a localization is the value of
\* the column labelled molid after renaming when there is one, and the row's
\* index label otherwise; a column labelled molecule_id is not consulted.
MolidFromMolidColumn ==
    TracksEmitted
        => EmittedMolids = (IF HasColumn(Renamed, "molid")
                            THEN Col(Renamed, "molid") ELSE df.index)

\* C10 witness: tracks emitted for a table with a molecule_id column whose
\* values are not the index labels
MoleculeIdColumnIgnored ==
    /\ TracksEmitted
    /\ HasColumn(Renamed, "molecule_id")
    /\ Col(Renamed, "molecule_id") # df.index
    /\ EmittedMolids = df.index

\* a call of sl_to_df on a struct with neither fits nor guesses
NeitherFitsNorGuesses ==
    op = "sl_to_df" /\ "fits" \notin DOMAIN sl_object /\ "guesses" \notin DOMAIN sl_object

\* C11 (as claimed): on a struct with neither fits nor guesses sl_to_df fails
\* with a KeyError and returns no table.
FailsWithKeyError == NeitherFitsNorGuesses => df_out.status = "KeyError"

\* C11 (amended): on a struct with neither fits nor guesses sl_to_df returns
\* no table, whatever other keys the struct has; the failure is the
\* UnboundLocalError of the first use of the name df, not a KeyError.
FailsWithUnboundLocal == NeitherFitsNorGuesses => df_out.status = "UnboundLocalError"

\* C11 witness: such a call on a struct that has trk_filt, tracks and roinum
FailedWithOtherKeys ==
    /\ NeitherFitsNorGuesses
    /\ DOMAIN sl_object = {"trk_filt", "tracks", "roinum"}
    /\ df_out.status # "ok"

\* the first row of each array of the struct
FirstRow(a) == a.v[1]

\* the columns and the values that C12 describes for the struct handed in
ExpectedColumns ==
    (IF "fits" \in DOMAIN sl_object THEN sl_object["fits"].keys
     ELSE <<"frame", "row", "col">>
              \o (IF "roinum" \in DOMAIN sl_object THEN <<"roinum">> ELSE <<>>))
        \o (IF "trk_filt" \in DOMAIN sl_object THEN <<"trk_filt">> ELSE <<>>)

ExpectedValues(c) ==
    IF c = "trk_filt" THEN FirstRow(sl_object["trk_filt"])
    ELSE IF "fits" \in DOMAIN sl_object THEN FirstRow(sl_object["fits"].at[c])
    ELSE IF c = "roinum" THEN FirstRow(sl_object["roinum"])
    ELSE sl_object["guesses"].v[CASE c = "frame" -> 1 [] c = "row" -> 2 [] c = "col" -> 3]

\* C12: for a struct without tracks the table of sl_to_df has one column per
\* key of fits when fits is present (guesses or not); otherwise frame, row,
\* col from the first three rows of guesses, plus roinum iff the struct has
\* roinum; and in both branches trk_filt iff the struct has trk_filt.
ColumnsWithoutTracks ==
    (op = "sl_to_df" /\ "tracks" \notin DOMAIN sl_object
        /\ ("fits" \in DOMAIN sl_object \/ "guesses" \in DOMAIN sl_object))
        => /\ df_out.status = "ok"
           /\ df_out.value.columns = ExpectedColumns
           /\ \A j \in DOMAIN ExpectedColumns :
                 df_out.value.data[j] = ExpectedValues(ExpectedColumns[j])

\* C12 witness: a table built from guesses with roinum and trk_filt
GuessesTableReturned ==
    /\ op = "sl_to_df"
    /\ DOMAIN sl_object = {"guesses", "roinum", "trk_filt"}
    /\ df_out.status = "ok"
    /\ NRows(df_out.value) >= 2

\* C17: with M the largest track id of the tracks matrix, the k-th untracked
\* row in table order has track id M + k.
SynthesizedIdsPositional ==
    ReturnedWithTracks
        => \A r \in UntrackedRows :
              Col(df_out.value, "track_id")[r]
                  = SeqMax(TracksIds) + Cardinality({q \in UntrackedRows : q <= r})

\* C17 witness: the untracked rows are not contiguous (rows 1 and 3 of 3)
UntrackedRowsApart ==
    /\ ReturnedWithTracks
    /\ NRows(df_out.value) = 3
    /\ UntrackedRows = {1, 3}

\* C13: df_to_so on a table without rows returns an empty sequence and
\* raises nothing.
EmptyTableEmptySequence ==
    (op = "df_to_so" /\ NRows(data_df) = 0)
        => /\ so_tracks.status = "ok"
           /\ Len(so_tracks.value) = 0

\* C13 witness: df_to_so was called on the table with its four columns and
\* no row
EmptyTablePartitioned ==
    /\ op = "df_to_so"
    /\ data_df.columns = <<"frame", "x", "y", "track_id">>
    /\ NRows(data_df) = 0

\* C14: the keys of the fits mapping returned by df_to_sl are the table's
\* column labels after renaming, and the value at a key has one entry per
\* table row, in row order: the row's value under that label (its values, in
\* column order, when the renaming gave the label to several columns).
FitsMirrorsTable ==
    (op = "df_to_sl" /\ data_sl.status = "ok")
        => LET fits == data_sl.value["fits"]
               N == NRows(df)
           IN  /\ Range(fits.keys) = Range(Renamed.columns)
               /\ Len(fits.keys) = Cardinality(Range(Renamed.columns))
               /\ DOMAIN fits.at = Range(Renamed.columns)
               /\ \A c \in Range(fits.keys) :
                     LET P == Positions(Renamed, c)
                     IN  /\ fits.at[c].shape[1] = N
                         /\ Len(fits.at[c].v) = N
                         /\ IF Len(P) = 1
                            THEN /\ fits.at[c].shape = <<N>>
                                 /\ fits.at[c].v = df.data[P[1]]
                            ELSE /\ fits.at[c].shape = <<N, Len(P)>>
                                 /\ \A r \in 1..N : \A j \in 1..Len(P) :
                                       fits.at[c].v[r][j] = df.data[P[j]][r]

\* C14 witness: the fits of a two-row table renamed by the docstring's mapper
FitsOfRenamedTable ==
    /\ op = "df_to_sl"
    /\ data_sl.status = "ok"
    /\ col_mapper = SLMapper
    /\ df.columns = <<"frame", "y", "x", "n", "rois">>
    /\ data_sl.value["fits"].keys = <<"frame", "row", "col", "track_id", "roinum">>
    /\ NRows(df) >= 2


\* the rows of the last filter_by_nlocs table whose track has a localization
\* count within [min_locs, max_locs]
CountOfTrack(r) ==
    Cardinality({q \in 1..NRows(locs_df) :
                    Col(locs_df, kwargs.track_col)[q] = Col(locs_df, kwargs.track_col)[r]})

RowsInRange ==
    {r \in 1..NRows(locs_df) :
        /\ Col(locs_df, kwargs.track_col)[r] # NaN
        /\ kwargs.min_locs <= CountOfTrack(r)
        /\ CountOfTrack(r) <= kwargs.max_locs}

\* C15: filter_by_nlocs returns exactly the rows whose track has a count c of
\* localizations with min_locs <= c <= max_locs, unchanged and in the order
\* of the input table (the first returned column, index, names the input row
\* of each returned row)
FilterKeepsRowsInRange ==
    op = "filter_by_nlocs" =>
        /\ ret.status = "ok"
        /\ ret.value.columns = <<"index">> \o locs_df.columns
        /\ Range(ret.value.data[1]) = {locs_df.index[r] : r \in RowsInRange}
        /\ NRows(ret.value) = Cardinality(RowsInRange)
        /\ \A k \in 1..NRows(ret.value) :
              /\ k > 1 => ret.value.data[1][k - 1] < ret.value.data[1][k]
              /\ \A j \in DOMAIN locs_df.data :
                    ret.value.data[j + 1][k] = locs_df.data[j][ret.value.data[1][k] + 1]

\* a call that drops a track below min_locs and a track above max_locs and
\* keeps a track, under a track column other than track_id
FilterDroppedBothSides ==
    /\ op = "filter_by_nlocs"
    /\ kwargs.track_col = "n"
    /\ ret.status = "ok"
    /\ NRows(ret.value) >= 2
    /\ \E r \in 1..NRows(locs_df) :
          Col(locs_df, "n")[r] # NaN /\ CountOfTrack(r) < kwargs.min_locs
    /\ \E r \in 1..NRows(locs_df) : CountOfTrack(r) > kwargs.max_locs

\* the distinct values of the column track_col of the last median_step_size
\* table
DistinctTracks == Range(Col(locs_df, kwargs.track_col))

\* C16: median_step_size returns one entry per distinct value of the column
\* named by track_col, whatever column track_col names, and the entry of a
\* track with a single localization is NaN
OneEntryPerTrackOfTrackCol ==
    op = "median_step_size" =>
        /\ ret.status = "ok"
        /\ Range(ret.value.data[1]) = DistinctTracks
        /\ NRows(ret.value) = Cardinality(DistinctTracks)
        /\ \A i \in 1..NRows(ret.value) :
              Cardinality({r \in 1..NRows(locs_df) :
                             Col(locs_df, kwargs.track_col)[r] = ret.value.data[1][i]}) = 1
                 => ret.value.data[2][i] = NaNMedian


\* C18: a call of plot_locs_scatter that leaves marker_props out draws with
\* the colours of its own color_col (None when color_col is None), whatever
\* the calls before it were
ColoursFromOwnColorCol ==
    (op = "plot_locs_scatter" /\ kwargs.omitted /\ ret.status = "ok") =>
        ret.value = IF kwargs.color_col.is_none THEN NoColors
                    ELSE Colors(Col(locs_df, kwargs.color_col.name))

\* C19: for a 6 x N tracks matrix and the table of the same N localizations
\* in the same order, sl_to_so returns the groups df_to_so returns: one per
\* distinct track id, with the same coordinates, timestamps and frames
SlToSoAgreesWithDfToSo ==
    op = "sl_to_so, df_to_so" =>
        /\ sl_so.status = "ok"
        /\ so_tracks.status = "ok"
        /\ Len(sl_so.value) = Len(so_tracks.value)
        /\ \A k \in DOMAIN sl_so.value :
              \A f \in {"xy", "TimeStamp", "Frame"} :
                 /\ sl_so.value[k][f].shape = GroupArrays(so_tracks.value[k])[f].shape
                 /\ sl_so.value[k][f].v = GroupArrays(so_tracks.value[k])[f].v

====
